---- MODULE Spec2Model ----
(***************************************************************************)
(* A model of the tei-publisher page container (pb-page), the select       *)
(* widget (pb-select), the refresh protocol between pb-document and        *)
(* pb-view, and the remote call of pb-ajax.  pb-page and pb-select are     *)
(* translated from src/src/pb-page.js; pb-mixin, pb-document, pb-view and  *)
(* pb-ajax are not part of the sources and are modelled from the           *)
(* specification and the tests.                                            *)
(***************************************************************************)

EXTENDS Naturals, Sequences, FiniteSets, TLC

\* ---------------------------------------------------------------- bounds
\* total number of remote requests pb-select may issue in one run
MaxRequests == 3
\* number of times the page tree may be connected to the document
MaxConnects == 2
\* number of pb-refresh events dispatched in one run
MaxRefresh == 1
\* clicks on the pb-ajax button
MaxClicks == 3

\* ------------------------------------------------------------- constants
NoAttr == "<no endpoint attribute>"
NoSource == "<no source>"
NoName == "<no name>"
NoValue == "<no value attribute>"
\* before any pb-page-ready signal
NoReady == [endpoint |-> "<none>"]
\* before any fetch of pb-select settled
NoneSettled == [id |-> 0, ok |-> FALSE, list |-> <<>>]
Null == "<null>"
Absent == "<absent>"

\* endpoint values a page may be configured with or set to
Endpoints == {".", "http://e1"}
\* window.location.href of the hosting page and the directory it resolves to
Href == "http://host/app/index.html"
HrefDir == "http://host/app/"
\* values of the `source` attribute of pb-select: unset, relative, absolute
Sources == {NoSource, "items.json", "http://other/items?all=1"}
\* the subform slot: empty, a named control slotted directly, or an element
\* wrapping a named control
Subforms == {"none", "bare", "wrapped"}
\* values the subform control may hold
SubformValues == {"a", "b c"}
\* statically slotted paper-items of pb-select
StaticOptions == <<"s1", "s2">>

\* items a server may return: {text, value}
ItemOne == [text |-> "One", value |-> "1"]
ItemTwo == [text |-> "Two", value |-> "2"]
\* lists of items a server may answer with
ServerLists == {<<>>, <<ItemOne>>, <<ItemTwo, ItemOne>>}
\* what a fetch can settle with: a rejected fetch, a body that is no JSON,
\* JSON that is no array, an array holding a null entry, an array of items
Responses == {[kind |-> "neterr", list |-> <<>>],
              [kind |-> "badjson", list |-> <<>>],
              [kind |-> "nonlist", list |-> <<>>],
              [kind |-> "nullitem", list |-> <<>>]}
             \cup {[kind |-> "list", list |-> l] : l \in ServerLists}

VARIABLES
    \* pb-page
    pageDefined,    \* customElements.define('pb-page') has run
    inDoc,          \* the page element (with its descendants) is in the document
    pageUpgraded,   \* the PbPage constructor has run on the element
    endpointAttr,   \* the endpoint attribute of the markup, or NoAttr
    endpoint,       \* PbPage.endpoint
    endpointSet,    \* the endpoint property was assigned after construction
    readyCount,     \* number of pb-page-ready signals dispatched
    lastReady,      \* detail of the last pb-page-ready signal
    \* pb-select
    selDefined,     \* customElements.define('pb-select') has run
    selUpgraded,    \* the PbSelect constructor and connectedCallback have run
    firstUpdatedDone,
    source,         \* PbSelect.source
    name,           \* PbSelect.name
    subform,        \* what is slotted into the subform slot
    subVal,         \* value of the named control of the subform
    slotted,        \* nodes assigned to the default slot
    _items,         \* PbSelect._items
    inflight,       \* fetches that have not settled
    nextReq,        \* number of requests issued so far
    lastSettled,    \* the fetch that settled last, with its response
    valueAttr,      \* the value attribute of the markup, or NoValue
    _value,         \* PbSelect._value
    hasHidden,      \* this._hidden exists
    _hidden,        \* this._hidden.value
    staleHidden,    \* values of the earlier hidden inputs, still children of the element
    lastWritten,    \* the value written last, by assignment or by selection
    lastSelect,     \* the last call of _changed: selection, hidden value before, dispatch
    \* pb-document
    doc,            \* the document descriptor of document1
    refreshCount,   \* number of pb-refresh events dispatched
    \* pb-view
    viewState,      \* per view: "idle" or "loading"
    content,        \* per view: the rendered content region
    appendFootnotes, \* the views with the append-footnotes attribute
    footnotes,      \* per view: the footnote region
    fetches,        \* fetches of the views that have not settled
    ended,          \* per cycle: pb-end-update events dispatched for it
    \* inputs and result of one descriptor merge
    mIn, mDetail, mOut,
    \* pb-ajax
    clicks,         \* clicks on the button so far
    calls,          \* remote calls that have not settled, by the click that issued them
    dialog,         \* the message the dialog holds
    ajaxEnded,      \* pb-end-update events pb-ajax dispatched on the document
    lastCall,       \* how the call that settled last settled
    listener        \* a one-time listener for pb-end-update on the document

pageVars == <<pageDefined, inDoc, pageUpgraded, endpointAttr, endpoint, endpointSet, readyCount, lastReady>>
selVars == <<selDefined, selUpgraded, firstUpdatedDone, source, name, subform, subVal,
             slotted, _items, inflight, nextReq, lastSettled>>
valVars == <<valueAttr, _value, hasHidden, _hidden, staleHidden, lastWritten, lastSelect>>
docVars == <<doc, refreshCount>>
viewVars == <<appendFootnotes, viewState, content, footnotes, fetches, ended>>
mergeVars == <<mIn, mDetail, mOut>>
ajaxVars == <<clicks, calls, dialog, ajaxEnded, lastCall, listener>>
vars == <<pageVars, selVars, valVars, docVars, viewVars, mergeVars, ajaxVars>>

\* ------------------------------------------------------------------ pb-page

\* constructor: this.endpoint = "."
DefaultEndpoint == "."

\* the element after upgrade: the constructor runs, then the attribute (when
\* present) is reflected into the property
UpgradedEndpoint == IF endpointAttr = NoAttr THEN DefaultEndpoint ELSE endpointAttr

\* a connectedCallback that signals the configured attribute, not the property
PageConnectedCallbackAttr(ep) == [endpoint |-> UpgradedEndpoint]

\* connectedCallback: signalReady('pb-page-ready', {endpoint: this.endpoint})
PageConnectedCallback(ep) == [endpoint |-> ep]

\* a page that connects without signalling
PageConnectSilent ==
    /\ pageUpgraded' = TRUE
    /\ endpoint' = IF pageUpgraded THEN endpoint ELSE UpgradedEndpoint
    /\ UNCHANGED <<readyCount, lastReady>>

\* the page element becomes connected: upgraded first when it was not yet
PageConnect ==
    /\ pageUpgraded' = TRUE
    /\ endpoint' = IF pageUpgraded THEN endpoint ELSE UpgradedEndpoint
    /\ readyCount' = readyCount + 1
    /\ lastReady' = PageConnectedCallback(endpoint')

\* ---------------------------------------------------------------- pb-select

\* getEndpoint of the mixin: the endpoint of the surrounding page, looked up
\* when called
GetEndpoint == endpoint

\* encodeURIComponent on the values of the subform control
EncodeURIComponent(v) == IF v = "b c" THEN "b%20c" ELSE v

\* _getParameters: name=value of every named control below a slotted node
_getParameters(val) ==
    IF subform = "wrapped" THEN "q=" \o EncodeURIComponent(val) ELSE ""

IsAbsolute(src) == src = "http://other/items?all=1"

\* new URL(source, base).toString()
ResolveURL(src, base) ==
    IF IsAbsolute(src) THEN src
    ELSE (IF base = Href THEN HrefDir ELSE base) \o src

HasQuery(src) == src = "http://other/items?all=1"

\* a base taken from the endpoint copied when pb-page-ready was signalled
RequestBaseCached == IF lastReady.endpoint = "." THEN Href ELSE lastReady.endpoint \o "/"

\* the base and the url _loadRemote computes
RequestBase == IF GetEndpoint = "." THEN Href ELSE GetEndpoint \o "/"

RequestUrl(val) ==
    LET url == ResolveURL(source, RequestBase)
    IN  IF HasQuery(source) THEN url \o "&" \o _getParameters(val)
        ELSE url \o "?" \o _getParameters(val)

\* a _loadRemote that aborts the fetches still in flight
_loadRemoteAborting(k, val) ==
    IF source # NoSource
    THEN /\ nextReq' = nextReq + k
         /\ inflight' = {[id |-> nextReq + k, base |-> RequestBase, url |-> RequestUrl(val)]}
    ELSE UNCHANGED <<nextReq, inflight>>

\* _loadRemote, called k times in a row while the subform control holds val:
\* the fetches it adds
_loadRemote(k, val) ==
    IF source # NoSource
    THEN /\ nextReq' = nextReq + k
         /\ inflight' = inflight \cup
                {[id |-> i, base |-> RequestBase, url |-> RequestUrl(val)] :
                    i \in (nextReq + 1)..(nextReq + k)}
    ELSE UNCHANGED <<nextReq, inflight>>

\* requests k calls of _loadRemote would issue
WouldIssue(k) == IF source # NoSource THEN k ELSE 0

\* the values the value property is given and the list offers
Values == {Null, "1", "2"}
Selectable == {"1", "2"}
NoSelect == [value |-> "", before |-> "", dispatched |-> FALSE]

\* the string an input element stores when its value is assigned v
ToInputString(v) == IF v = Null THEN "" ELSE v

\* constructor: this._value = null; the value attribute, when present, is
\* then reflected through the setter (this._hidden does not exist yet)
UpgradedValue == IF valueAttr = NoValue THEN Null ELSE valueAttr

\* connectedCallback of pb-select together with the upgrade preceding it:
\* a new hidden input holding this.value is created and appended; the one
\* of an earlier connection stays a child of the element
SelectConnect ==
    /\ selUpgraded' = TRUE
    /\ _value' = IF selUpgraded THEN _value ELSE UpgradedValue
    /\ lastWritten' = IF selUpgraded \/ valueAttr = NoValue THEN lastWritten ELSE valueAttr
    /\ hasHidden' = TRUE
    /\ _hidden' = ToInputString(_value')
    /\ staleHidden' = IF hasHidden THEN staleHidden \cup {_hidden} ELSE staleHidden

\* set value(newVal)
SetValueProperty(newVal) ==
    /\ _value' = newVal
    /\ _hidden' = IF hasHidden THEN ToInputString(newVal) ELSE _hidden

\* _changed with list.selected = sel
_changed(sel) ==
    IF _hidden = sel
    THEN /\ lastSelect' = [value |-> sel, before |-> _hidden, dispatched |-> FALSE]
         /\ UNCHANGED _hidden
    ELSE /\ _hidden' = sel
         /\ lastSelect' = [value |-> sel, before |-> _hidden, dispatched |-> TRUE]

\* listeners firstUpdated registers that a change event of the named control
\* reaches: the one on the control, and the one on the slotted node when
\* this.name is set
ChangeListeners ==
    CASE subform = "none" -> 0
      [] subform = "bare" -> IF name # NoName THEN 1 ELSE 0
      [] subform = "wrapped" -> IF name # NoName THEN 2 ELSE 1

\* _clear: removes every node assigned to the default slot
_clear == <<>>

\* a handler that adds the items of the response to the ones it holds
BuildItemsAppending(list) ==
    _items \o [i \in 1..Len(list) |-> [label |-> list[i].text, value |-> list[i].value]]

\* the items the response handler builds from the parsed list
BuildItems(list) == [i \in 1..Len(list) |-> [label |-> list[i].text, value |-> list[i].value]]

\* -------------------------------------------------------------- pb-document

Fields == {"path", "odd", "view", "xpath", "position", "id"}

PathValues == {"doc/documentation.xml", "test/orlik_to_serafin.xml", "xxx/yyy.xml"}
\* paths the server has a resource for
ValidPaths == {"doc/documentation.xml", "test/orlik_to_serafin.xml"}
\* paths of sources that contain footnote markup
FootnotePaths == {"test/orlik_to_serafin.xml"}

\* document descriptors
Descriptors ==
    [path : PathValues, odd : {"docbook", "graves"}, view : {"div", "single"},
     xpath : {Null, "//body"}, position : {Null, "p1"}, id : {Null, "installation"}]

\* details of a pb-refresh event: every field is supplied or absent
Details ==
    [path : PathValues \cup {Absent}, odd : {"docbook", "graves", Absent},
     view : {"div", "single", Absent}, xpath : {Null, "//body", Absent},
     position : {Null, "p1", Absent}, id : {Null, "installation", Absent}]

\* the detail that supplies nothing
NoRefresh == [f \in Fields |-> Absent]

\* details the views are refreshed with: path, odd or both
ViewDetails ==
    {d \in Details : /\ \A f \in Fields \ {"path", "odd"} : d[f] = Absent
                     /\ \E f \in {"path", "odd"} : d[f] # Absent}

\* a merge that replaces the descriptor by the detail
MergeReplace(d, detail) == [f \in Fields |-> detail[f]]

\* the descriptor after a refresh: supplied fields overwrite, the others stay
Merge(d, detail) == [f \in Fields |-> IF detail[f] = Absent THEN d[f] ELSE detail[f]]

\* ------------------------------------------------------------------ pb-view

DocId == "document1"
Views == {"view1", "view2", "view3"}
\* the src attribute of each view: the id of the document it shows
ViewSrc(v) == IF v = "view3" THEN "other" ELSE "document1"
\* the not-found attribute of the views
NotFoundText == "Not found"
\* content regions: a text, or the markup rendered for a descriptor
Text(t) == [text |-> t, markup |-> NoRefresh]
EmptyContent == Text("")

\* only the first view of the document reloads
OneViewReloads == {CHOOSE v \in Views : ViewSrc(v) = DocId}

\* views that reload when the descriptor of document1 changes
ViewsToReload == {v \in Views : ViewSrc(v) = DocId}

Cycles == Views \X (0..MaxRefresh)

\* the markup the server renders for a descriptor
Markup(d) == [text |-> "", markup |-> d]

\* how a fetch for descriptor d can settle
Outcomes(d) == IF d.path \in ValidPaths THEN {"ok", "error"} ELSE {"notfound"}

\* the footnote markup the server returns for a descriptor
FootnoteMarkup(d) == IF d.path \in FootnotePaths THEN "brata" ELSE ""

\* how the fetch f can settle; the fetch for the footnotes returns the
\* footnote markup of the source, which may be empty
FetchOutcomes(f) == IF f.stage = "primary" THEN Outcomes(f.desc) ELSE {"ok"}

\* the primary fetch succeeded in a view that appends footnotes: the
\* secondary fetch follows
MoreToFetch(f, o) == f.stage = "primary" /\ o = "ok" /\ f.view \in appendFootnotes

\* the fetches a settled fetch is followed by
FollowUp(f, o) == IF MoreToFetch(f, o) THEN {[f EXCEPT !.stage = "footnotes"]} ELSE {}

\* the footnote region once f settled: replaced with the content by the
\* primary fetch, filled by the secondary one
FootnoteRegion(f, o) ==
    CASE f.view \notin appendFootnotes -> footnotes[f.view]
      [] f.stage = "primary" -> ""
      [] OTHER -> FootnoteMarkup(f.desc)

\* a view that clears its content when the fetch failed
RenderNoPlaceholder(f, o) == IF o = "ok" THEN Markup(f.desc) ELSE EmptyContent

\* what the view shows once its fetch f settled with outcome o
Render(f, o) == IF o = "ok" THEN Markup(f.desc) ELSE Text(NotFoundText)

\* what the content region shows once f settled
ContentRegion(f, o) == IF f.stage = "primary" THEN Render(f, o) ELSE content[f.view]

\* a view that returns to idle only after a successful fetch
StateAfterSettleStuck(f, o) == IF o = "ok" THEN "idle" ELSE "loading"

\* the state of the view once a fetch of its settled
StateAfterSettle(f, o) == IF MoreToFetch(f, o) THEN viewState[f.view] ELSE "idle"

\* a view that announces the end of successful updates only
EndUpdatesOnSuccessOnly(f, o) == IF o = "ok" THEN 1 ELSE 0

\* a view that announces the end of the update when the primary fetch settled
EndUpdatesAtPrimary(f, o) == IF f.stage = "primary" THEN 1 ELSE 0

\* pb-end-update events a view dispatches when a fetch of its settles
EndUpdates(f, o) == IF MoreToFetch(f, o) THEN 0 ELSE 1

\* ------------------------------------------------------------------ pb-ajax

\* the message the server answers the call with
ResponseMessage == "graves-web.xql"

\* how a call can settle
CallOutcomes == {"ok", "failed"}

NotListening == [state |-> "none", since |-> 0, pending |-> FALSE]

\* the dialog once a call settled: the response message, or what it held when
\* the call failed
DialogAfter(o) == IF o = "ok" THEN ResponseMessage ELSE dialog

\* a pb-ajax that announces the end of successful calls only
AjaxEndUpdatesOnSuccess(o) == IF o = "ok" THEN 1 ELSE 0

\* pb-end-update events pb-ajax dispatches when its call settled
AjaxEndUpdates(o) == 1

\* an event dispatched on the document reaches the listeners registered then
Deliver(l, k) == IF k > 0 /\ l.state = "waiting" THEN [l EXCEPT !.state = "observed"] ELSE l

\* --------------------------------------------------------------- initial states

\* the page and the select before anything is defined or inserted
PageSelectInit ==
    /\ pageDefined = FALSE
    /\ inDoc = FALSE
    /\ pageUpgraded = FALSE
    /\ endpointAttr \in {NoAttr, "http://e1"}
    /\ endpoint = "<undefined>"
    /\ endpointSet = FALSE
    /\ readyCount = 0
    /\ lastReady = NoReady
    /\ selDefined = FALSE
    /\ selUpgraded = FALSE
    /\ firstUpdatedDone = FALSE
    /\ source \in Sources
    /\ name \in {NoName, "n"}
    /\ subform \in Subforms
    /\ subVal = "a"
    /\ slotted = StaticOptions
    /\ _items = <<>>
    /\ inflight = {}
    /\ nextReq = 0
    /\ lastSettled = NoneSettled
    /\ valueAttr = NoValue
    /\ _value = Null
    /\ hasHidden = FALSE
    /\ _hidden = ""
    /\ staleHidden = {}
    /\ lastWritten = Null
    /\ lastSelect = NoSelect

\* a connected page without pb-select
PageSelectQuiet ==
    /\ pageDefined = TRUE
    /\ inDoc = TRUE
    /\ pageUpgraded = TRUE
    /\ endpointAttr = "http://e1"
    /\ endpoint = "http://e1"
    /\ endpointSet = FALSE
    /\ readyCount = 1
    /\ lastReady = [endpoint |-> "http://e1"]
    /\ selDefined = FALSE
    /\ selUpgraded = FALSE
    /\ firstUpdatedDone = FALSE
    /\ source = NoSource
    /\ name = NoName
    /\ subform = "none"
    /\ subVal = "a"
    /\ slotted = <<>>
    /\ _items = <<>>
    /\ inflight = {}
    /\ nextReq = 0
    /\ lastSettled = NoneSettled
    /\ valueAttr = NoValue
    /\ _value = Null
    /\ hasHidden = FALSE
    /\ _hidden = ""
    /\ staleHidden = {}
    /\ lastWritten = Null
    /\ lastSelect = NoSelect

\* a page with a pb-select that has no source: only its value is exercised
ValueInit ==
    /\ pageDefined = FALSE
    /\ inDoc = FALSE
    /\ pageUpgraded = FALSE
    /\ endpointAttr = NoAttr
    /\ endpoint = "<undefined>"
    /\ endpointSet = FALSE
    /\ readyCount = 0
    /\ lastReady = NoReady
    /\ selDefined = FALSE
    /\ selUpgraded = FALSE
    /\ firstUpdatedDone = FALSE
    /\ source = NoSource
    /\ name = "n"
    /\ subform = "none"
    /\ subVal = "a"
    /\ slotted = StaticOptions
    /\ _items = <<>>
    /\ inflight = {}
    /\ nextReq = 0
    /\ lastSettled = NoneSettled
    /\ valueAttr \in {NoValue, "1"}
    /\ _value = Null
    /\ hasHidden = FALSE
    /\ _hidden = ""
    /\ staleHidden = {}
    /\ lastWritten = Null
    /\ lastSelect = NoSelect

\* the descriptor the page declares
InitialDoc(p) ==
    [path |-> p, odd |-> "docbook", view |-> "div", xpath |-> Null,
     position |-> Null, id |-> Null]

\* the views right after the page was rendered: each view of document1 loads
ViewStart(fv) ==
    /\ appendFootnotes = fv
    /\ doc \in {InitialDoc(p) : p \in PathValues}
    /\ refreshCount = 0
    /\ viewState = [v \in Views |-> IF v \in ViewsToReload THEN "loading" ELSE "idle"]
    /\ content = [v \in Views |-> EmptyContent]
    /\ footnotes = [v \in Views |-> ""]
    /\ fetches = {[view |-> v, n |-> 0, desc |-> doc, stage |-> "primary"] : v \in ViewsToReload}
    /\ ended = [c \in Cycles |-> 0]

\* the views of the page load the document; none appends footnotes
ViewInit == ViewStart({})

\* the second view has the append-footnotes attribute
FootnoteInit == ViewStart({"view2"})

\* a page without documents and views
ViewQuiet ==
    /\ appendFootnotes = {}
    /\ doc = InitialDoc("doc/documentation.xml")
    /\ refreshCount = 0
    /\ viewState = [v \in Views |-> "idle"]
    /\ content = [v \in Views |-> EmptyContent]
    /\ footnotes = [v \in Views |-> ""]
    /\ fetches = {}
    /\ ended = [c \in Cycles |-> 0]

MergeInit ==
    /\ mIn \in Descriptors
    /\ mDetail \in Details
    /\ mOut = <<>>

MergeQuiet ==
    /\ mIn = InitialDoc("doc/documentation.xml")
    /\ mDetail = NoRefresh
    /\ mOut = <<>>

\* pb-ajax before any click, nobody listening
AjaxInit ==
    /\ clicks = 0
    /\ calls = {}
    /\ dialog = ""
    /\ ajaxEnded = 0
    /\ lastCall = "none"
    /\ listener = NotListening

Init == PageSelectInit /\ ViewQuiet /\ MergeQuiet /\ AjaxInit

\* ------------------------------------------------------------------ actions

\* customElements.define('pb-page', PbPage): elements in the document upgrade
DefinePage ==
    /\ ~pageDefined
    /\ pageDefined' = TRUE
    /\ IF inDoc
       THEN PageConnect
       ELSE UNCHANGED <<pageUpgraded, endpoint, readyCount, lastReady>>
    /\ UNCHANGED <<inDoc, endpointAttr, endpointSet, selVars>>
    /\ UNCHANGED <<valVars, docVars, viewVars, mergeVars, ajaxVars>>

\* customElements.define('pb-select', PbSelect), later in the same module
DefineSelect ==
    /\ pageDefined
    /\ ~selDefined
    /\ selDefined' = TRUE
    /\ IF inDoc THEN SelectConnect ELSE UNCHANGED <<selUpgraded, _value, hasHidden, _hidden, staleHidden, lastWritten>>
    /\ UNCHANGED <<pageVars, firstUpdatedDone, source, name, subform, subVal,
                   slotted, _items, inflight, nextReq, lastSettled, valueAttr, lastSelect>>
    /\ UNCHANGED <<docVars, viewVars, mergeVars, ajaxVars>>

\* the page element and its descendants are inserted into the document:
\* connectedCallback runs on the defined elements in tree order
InsertTree ==
    /\ ~inDoc
    /\ inDoc' = TRUE
    /\ IF pageDefined
       THEN /\ readyCount < MaxConnects
            /\ PageConnect
       ELSE UNCHANGED <<pageUpgraded, endpoint, readyCount, lastReady>>
    /\ IF selDefined THEN SelectConnect ELSE UNCHANGED <<selUpgraded, _value, hasHidden, _hidden, staleHidden, lastWritten>>
    /\ UNCHANGED <<pageDefined, endpointAttr, endpointSet, selDefined,
                   firstUpdatedDone, source, name, subform, subVal,
                   slotted, _items, inflight, nextReq, lastSettled, valueAttr, lastSelect>>
    /\ UNCHANGED <<docVars, viewVars, mergeVars, ajaxVars>>

RemoveTree ==
    /\ inDoc
    /\ inDoc' = FALSE
    /\ UNCHANGED <<pageDefined, pageUpgraded, endpointAttr, endpoint, endpointSet,
                   readyCount, lastReady, selVars>>
    /\ UNCHANGED <<valVars, docVars, viewVars, mergeVars, ajaxVars>>

\* page.endpoint = e
SetEndpoint(e) ==
    /\ pageUpgraded
    /\ e # endpoint
    /\ endpoint' = e
    /\ endpointSet' = TRUE
    /\ UNCHANGED <<pageDefined, inDoc, pageUpgraded, endpointAttr, readyCount, lastReady, selVars>>
    /\ UNCHANGED <<valVars, docVars, viewVars, mergeVars, ajaxVars>>

\* firstUpdated: registers the change listeners, then calls _loadRemote
FirstUpdated ==
    /\ selUpgraded
    /\ ~firstUpdatedDone
    /\ firstUpdatedDone' = TRUE
    /\ nextReq + WouldIssue(1) <= MaxRequests
    /\ _loadRemote(1, subVal)
    /\ UNCHANGED <<pageVars, selDefined, selUpgraded, source, name, subform, subVal,
                   slotted, _items, lastSettled>>
    /\ UNCHANGED <<valVars, docVars, viewVars, mergeVars, ajaxVars>>

\* the user changes the named control of the subform: every listener the
\* change event reaches calls _loadRemote
SubformChange(v) ==
    /\ selUpgraded
    /\ subform # "none"
    /\ v # subVal
    /\ subVal' = v
    /\ LET k == IF firstUpdatedDone THEN ChangeListeners ELSE 0
       IN  /\ nextReq + WouldIssue(k) <= MaxRequests
           /\ _loadRemote(k, v)
    /\ UNCHANGED <<pageVars, selDefined, selUpgraded, firstUpdatedDone, source, name,
                   subform, slotted, _items, lastSettled>>
    /\ UNCHANGED <<valVars, docVars, viewVars, mergeVars, ajaxVars>>

\* a fetch settles with response resp
Resolve(r, resp) ==
    /\ r \in inflight
    /\ inflight' = inflight \ {r}
    /\ lastSettled' = [id |-> r.id, ok |-> resp.kind = "list", list |-> resp.list]
    /\ CASE resp.kind \in {"neterr", "badjson"} ->
              UNCHANGED <<slotted, _items>>
         [] resp.kind \in {"nonlist", "nullitem"} ->
              /\ slotted' = _clear
              /\ UNCHANGED _items
         [] resp.kind = "list" ->
              /\ slotted' = _clear
              /\ _items' = BuildItems(resp.list)
    /\ UNCHANGED <<pageVars, selDefined, selUpgraded, firstUpdatedDone, source, name,
                   subform, subVal, nextReq>>
    /\ UNCHANGED <<valVars, docVars, viewVars, mergeVars, ajaxVars>>

Next ==
    \/ DefinePage
    \/ DefineSelect
    \/ InsertTree
    \/ RemoveTree
    \/ \E e \in Endpoints : SetEndpoint(e)
    \/ FirstUpdated
    \/ \E v \in SubformValues : SubformChange(v)
    \/ \E r \in inflight, resp \in Responses : Resolve(r, resp)

Spec == Init /\ [][Next]_vars

\* ------------------------------------------------- the value of pb-select

\* select.value = v
SetValue(v) ==
    /\ selUpgraded
    /\ SetValueProperty(v)
    /\ lastWritten' = v
    /\ UNCHANGED <<valueAttr, hasHidden, staleHidden, lastSelect>>
    /\ UNCHANGED <<pageVars, selVars, docVars, viewVars, mergeVars, ajaxVars>>

\* the user picks the item with value v in the rendered list: _changed runs
UserSelect(v) ==
    /\ selUpgraded
    /\ firstUpdatedDone
    /\ inDoc
    /\ _changed(v)
    /\ lastWritten' = v
    /\ UNCHANGED <<valueAttr, _value, hasHidden, staleHidden>>
    /\ UNCHANGED <<pageVars, selVars, docVars, viewVars, mergeVars, ajaxVars>>

ValueNext ==
    \/ DefinePage
    \/ DefineSelect
    \/ InsertTree
    \/ RemoveTree
    \/ FirstUpdated
    \/ \E v \in Values : SetValue(v)
    \/ \E v \in Selectable : UserSelect(v)

ValueSpecInit == ValueInit /\ ViewQuiet /\ MergeQuiet /\ AjaxInit

ValueSpec == ValueSpecInit /\ [][ValueNext]_vars

\* ------------------------------------------------- the refresh protocol

\* a pb-refresh event with this detail is dispatched on the document: the
\* document merges it and announces itself, every view showing it reloads
Refresh(detail) ==
    /\ refreshCount < MaxRefresh
    /\ refreshCount' = refreshCount + 1
    /\ doc' = Merge(doc, detail)
    /\ viewState' = [v \in Views |-> IF v \in ViewsToReload THEN "loading" ELSE viewState[v]]
    /\ fetches' = fetches \cup
            {[view |-> v, n |-> refreshCount', desc |-> doc', stage |-> "primary"] :
                v \in ViewsToReload}
    /\ UNCHANGED <<appendFootnotes, content, footnotes, ended>>
    /\ UNCHANGED <<pageVars, selVars, valVars, mergeVars, ajaxVars>>

\* the fetch f of a view settles with outcome o
Settle(f, o) ==
    /\ f \in fetches
    /\ o \in FetchOutcomes(f)
    /\ fetches' = (fetches \ {f}) \cup FollowUp(f, o)
    /\ content' = [content EXCEPT ![f.view] = ContentRegion(f, o)]
    /\ footnotes' = [footnotes EXCEPT ![f.view] = FootnoteRegion(f, o)]
    /\ viewState' = [viewState EXCEPT ![f.view] = StateAfterSettle(f, o)]
    /\ ended' = [ended EXCEPT ![<<f.view, f.n>>] = @ + EndUpdates(f, o)]
    /\ UNCHANGED appendFootnotes
    /\ UNCHANGED <<docVars, pageVars, selVars, valVars, mergeVars, ajaxVars>>

SettleCycle(v, n) ==
    \E f \in fetches : f.view = v /\ f.n = n /\ \E o \in {"ok", "error", "notfound"} : Settle(f, o)

ViewNext ==
    \/ \E detail \in ViewDetails : Refresh(detail)
    \/ \E c \in Cycles : SettleCycle(c[1], c[2])

ViewSpecInit == PageSelectQuiet /\ ViewInit /\ MergeQuiet /\ AjaxInit

ViewSpec == ViewSpecInit /\ [][ViewNext]_vars

FootnoteSpecInit == PageSelectQuiet /\ FootnoteInit /\ MergeQuiet /\ AjaxInit

\* the refresh protocol with a view that appends footnotes
FootnoteSpec == FootnoteSpecInit /\ [][ViewNext]_vars

\* every fetch settles: the network answers or fails
FairViewSpec == ViewSpec /\ WF_vars(\E c \in Cycles : SettleCycle(c[1], c[2]))

\* ------------------------------------------------- pb-ajax

\* the button of pb-ajax is clicked: the remote call is issued
Click ==
    /\ clicks < MaxClicks
    /\ clicks' = clicks + 1
    /\ calls' = calls \cup {clicks'}
    /\ UNCHANGED <<dialog, ajaxEnded, lastCall, listener>>
    /\ UNCHANGED <<pageVars, selVars, valVars, docVars, viewVars, mergeVars>>

\* the call of click c settles with outcome o
AjaxSettle(c, o) ==
    /\ c \in calls
    /\ calls' = calls \ {c}
    /\ dialog' = DialogAfter(o)
    /\ ajaxEnded' = ajaxEnded + AjaxEndUpdates(o)
    /\ lastCall' = o
    /\ listener' = Deliver(listener, AjaxEndUpdates(o))
    /\ UNCHANGED clicks
    /\ UNCHANGED <<pageVars, selVars, valVars, docVars, viewVars, mergeVars>>

\* oneEvent(document, 'pb-end-update'): a one-time listener is registered
Listen ==
    /\ listener.state = "none"
    /\ listener' = [state |-> "waiting", since |-> clicks, pending |-> calls # {}]
    /\ UNCHANGED <<clicks, calls, dialog, ajaxEnded, lastCall>>
    /\ UNCHANGED <<pageVars, selVars, valVars, docVars, viewVars, mergeVars>>

AjaxNext ==
    \/ Click
    \/ \E c \in 1..MaxClicks, o \in CallOutcomes : AjaxSettle(c, o)
    \/ Listen

AjaxSpecInit == PageSelectQuiet /\ ViewQuiet /\ MergeQuiet /\ AjaxInit

AjaxSpec == AjaxSpecInit /\ [][AjaxNext]_vars

\* every call settles: the network answers or fails
FairAjaxSpec ==
    AjaxSpec /\ WF_vars(\E c \in 1..MaxClicks, o \in CallOutcomes : AjaxSettle(c, o))

\* ------------------------------------------------- the merge on its own

ApplyMerge ==
    /\ mOut = <<>>
    /\ mOut' = <<Merge(mIn, mDetail)>>
    /\ UNCHANGED <<mIn, mDetail, pageVars, selVars, valVars, docVars, viewVars, ajaxVars>>

MergeNext == ApplyMerge

MergeSpecInit == PageSelectQuiet /\ ViewQuiet /\ MergeInit /\ AjaxInit

MergeSpec == MergeSpecInit /\ [][MergeNext]_vars

\* ------------------------------------------------------------------ claims

\* cycles the views of document1 run for pb-refresh events
RefreshCycles == {c \in Cycles : ViewSrc(c[1]) = DocId /\ c[2] >= 1}

C2_IdleLoadingIdle ==
    /\ [][\A v \in Views :
            /\ (viewState[v] = "idle" /\ viewState'[v] = "loading")
                  => refreshCount' = refreshCount + 1
            /\ (viewState[v] = "loading" /\ viewState'[v] = "idle")
                  => /\ \E n \in 0..MaxRefresh :
                           ended'[<<v, n>>] = ended[<<v, n>>] + 1
                     /\ \/ content'[v].text = NotFoundText
                        \/ content'[v].markup \in Descriptors
            /\ (\E f \in fetches : /\ f.view = v
                                    /\ \A g \in fetches' : g.view = v => g.n # f.n)
                  => viewState'[v] = "idle"]_vars
    /\ \A v \in Views : (viewState[v] = "loading") ~> (viewState[v] = "idle")

C2_Witness ==
    /\ viewState["view1"] = "idle"
    /\ viewState["view2"] = "loading"
    /\ ended[<<"view1", 0>>] = 1
    /\ ended[<<"view1", 1>>] = 1
    /\ content["view1"].text = NotFoundText
    /\ refreshCount = 1

C5_LastResolvedWins ==
    /\ [][\A r \in inflight : r \notin inflight' => lastSettled'.id = r.id]_vars
    /\ [](lastSettled.ok =>
            /\ Len(_items) = Len(lastSettled.list)
            /\ \A i \in 1..Len(_items) :
                 /\ _items[i].label = lastSettled.list[i].text
                 /\ _items[i].value = lastSettled.list[i].value)

C5_Witness ==
    /\ nextReq >= 2
    /\ inflight = {}
    /\ lastSettled.id = 1
    /\ lastSettled.ok
    /\ _items = <<[label |-> "Two", value |-> "2"], [label |-> "One", value |-> "1"]>>

\* C6: every connection of the page dispatches one pb-page-ready whose detail
\* is the endpoint the page holds at that moment, which is "." when neither an
\* attribute nor an assignment configured it.
C6_ReadyCarriesEndpoint ==
    [][/\ ((pageDefined' /\ inDoc') /\ ~(pageDefined /\ inDoc))
            => readyCount' = readyCount + 1
       /\ readyCount' # readyCount
            => /\ readyCount' = readyCount + 1
               /\ lastReady'.endpoint = endpoint'
               /\ (endpointAttr = NoAttr /\ ~endpointSet) => lastReady'.endpoint = "."]_vars

C6_Witness ==
    /\ readyCount = 2
    /\ endpointAttr = "http://e1"
    /\ endpointSet
    /\ endpoint = "."
    /\ lastReady.endpoint = "."

C8_EndpointResolvedAtRequest ==
    [][\A r \in inflight' \ inflight :
         LET dir == IF endpoint' = "." THEN HrefDir ELSE endpoint' \o "/"
             params == IF subform = "wrapped"
                       THEN (IF subVal' = "b c" THEN "q=b%20c" ELSE "q=" \o subVal')
                       ELSE ""
         IN  /\ r.base = IF endpoint' = "." THEN Href ELSE endpoint' \o "/"
             /\ source = "items.json" => r.url = dir \o "items.json?" \o params
             /\ source = "http://other/items?all=1"
                  => r.url = "http://other/items?all=1&" \o params]_vars

C8_Witness ==
    /\ lastReady.endpoint = "."
    /\ endpoint = "http://e1"
    /\ subVal = "b c"
    /\ \E r \in inflight :
         /\ r.base = "http://e1/"
         /\ r.url = "http://e1/items.json?q=b%20c"

\* C9: a fetch that settles with a failure leaves the slotted options and the
\* item list as they were.
C9_FailureLeavesOptions ==
    [][(\E r \in inflight : r \notin inflight') /\ ~lastSettled'.ok
          => (slotted' = slotted /\ _items' = _items)]_vars

C13_LoadReplacesWholesale ==
    [][((\E r \in inflight : r \notin inflight') /\ lastSettled'.ok)
          => /\ slotted' = <<>>
             /\ Len(_items') = Len(lastSettled'.list)
             /\ \A i \in 1..Len(_items') :
                  /\ _items'[i].label = lastSettled'.list[i].text
                  /\ _items'[i].value = lastSettled'.list[i].value]_vars

C13_Witness ==
    /\ nextReq = 2
    /\ inflight = {}
    /\ lastSettled = [id |-> 2, ok |-> TRUE, list |-> <<ItemOne>>]
    /\ _items = <<[label |-> "One", value |-> "1"]>>
    /\ slotted = <<>>

\* C15: pb-select issues one request on first render and one request per
\* change of the subform control when source is set, never two for one
\* change; without source it issues none and the item list stays as it is.
C15_OneRequestPerEvent ==
    [][/\ (firstUpdatedDone' /\ ~firstUpdatedDone)
            => nextReq' = nextReq + (IF source # NoSource THEN 1 ELSE 0)
       /\ (subVal' # subVal /\ firstUpdatedDone)
            => nextReq' = nextReq + (IF source # NoSource THEN 1 ELSE 0)
       /\ source = NoSource => (nextReq' = 0 /\ inflight' = {} /\ _items' = _items)]_vars

\* C14: once pb-select is connected, its hidden input holds the value written
\* last (by assigning the value property or by a selection of the user, as
\* the string an input stores), and a selection dispatches change exactly
\* when the selected value differs from the hidden input's value at that moment.
C14_HiddenHoldsLastWritten ==
    selUpgraded =>
        /\ _hidden = ToInputString(lastWritten)
        /\ lastSelect.dispatched <=> (lastSelect.value # lastSelect.before)

====
